---- MODULE Spec2Model ----
(***************************************************************************)
(* Model of the worker-session orchestrator: src/main.js (registry Map,    *)
(* status callback, HTTP handlers, operation fan-out) and                  *)
(* src/whatsappClient.js (WhatsAppClientManager, one session object per    *)
(* construction).  One action per handler, timer callback or connection    *)
(* event; an action runs its handler from the start to the next await.     *)
(***************************************************************************)
EXTENDS Integers, Sequences, FiniteSets, Bags, TLC

\* ---- bounds of the model ------------------------------------------------
MaxClients  == 2   \* identities client_1 .. client_MaxClients; the configured
                   \* WHATSAPP_WORKERS_COUNT ranges over 0 .. MaxClients
MaxDetached == 1   \* session objects outside the Map that are still referred to
MaxDestroys == 1   \* destroy() calls in flight on one session object
MaxTimers   == 2   \* re-initialisation timers pending for one identity
MaxOps      == 1   \* operations submitted in one run

\* ---- program constants (config) -----------------------------------------
MASS_REPORT_COUNT   == 50
MESSAGE_FLOOD_COUNT == 100
GROUP_INVITE_COUNT  == 10

ClientIds    == 1..MaxClients
OpIds        == 1..MaxOps
WorkerCounts == 0..MaxClients

LiveConn == {"init", "qr", "auth", "ready"}

VARIABLES
    WHATSAPP_WORKERS_COUNT, \* config value, fixed at start-up
    whatsappClients,        \* the Map: session objects in insertion order, keyed by clientId
    detached,               \* bag of session objects outside the Map that a pending
                            \* promise, a live connection or a running task refers to
    myCache,                \* identities with a cached qr_<id> entry
    timers,                 \* pending setTimeout(initializeWhatsAppClient) per identity
    addPolls,               \* identities an /whatsapp/add request is polling for
    activeOperations,       \* Map operationId -> operation record
    nextOp,                 \* operation ids handed out so far
    resp                    \* status code of the HTTP response sent by the latest
                            \* step, 0 when that step answered no request

vars == <<WHATSAPP_WORKERS_COUNT, whatsappClients, detached, myCache, timers,
          addPolls, activeOperations, nextOp, resp>>

regVars == <<whatsappClients, detached, myCache, timers, addPolls>>
opVars  == <<activeOperations, nextOp>>

NoOp == [status |-> "none"]

\* ---- the Map whatsappClients ---------------------------------------------
MapKeys(m)   == {m[i].clientId : i \in 1..Len(m)}
MapHas(m, c) == c \in MapKeys(m)
MapIndex(m, c) == CHOOSE i \in 1..Len(m) : m[i].clientId = c
MapGet(m, c) == m[MapIndex(m, c)]
MapDelete(m, c) == SelectSeq(m, LAMBDA s : s.clientId # c)

Registered(c) == MapHas(whatsappClients, c)
StatusOf(c)   == MapGet(whatsappClients, c).status

\* ---- WhatsAppClientManager ------------------------------------------------
\* constructor + initializeClient: a fresh object, connection initialising;
\* held: the running worker tasks that captured this object
NewSession(c) ==
    [clientId |-> c, status |-> "idle", conn |-> "init",
     destroys |-> 0, removes |-> 0, held |-> {}]

\* destroy() up to its await: this.client is set by the constructor and never
\* cleared, so client.destroy() is always called; awaited: called by the
\* /whatsapp/remove handler
destroyCall(s, awaited) ==
    [s EXCEPT !.conn = IF @ = "closed" THEN "closed" ELSE "closing",
              !.destroys = IF awaited THEN @ ELSE @ + 1,
              !.removes  = IF awaited THEN @ + 1 ELSE @]

\* ---- updateClientStatus (main.js) ----------------------------------------
ReinitStatuses_NoDisconnected == {"destroyed", "error"}

ReinitStatuses == {"destroyed", "error", "disconnected"}

\* m, cache, tm: the Map, the cache and the timers before the callback
updateClientStatus(m, cache, tm, c, status, hasQr) ==
    IF MapHas(m, c)
    THEN [m     |-> [m EXCEPT ![MapIndex(m, c)].status = status],
          cache |-> IF hasQr THEN cache \cup {c} ELSE cache \ {c},
          tm    |-> IF status \in ReinitStatuses
                    THEN [tm EXCEPT ![c] = @ + 1] ELSE tm]
    ELSE [m |-> m, cache |-> cache, tm |-> tm]

\* ---- initializeWhatsAppClient (main.js) -----------------------------------
\* m, d: the Map and the detached objects; the replaced object leaves the Map
\* with its destroy() in flight
initializeWhatsAppClient(m, d, c) ==
    LET d1 == IF MapHas(m, c)
              THEN d (+) SetToBag({destroyCall(MapGet(m, c), FALSE)}) ELSE d
        m1 == IF MapHas(m, c) THEN MapDelete(m, c) ELSE m
    IN  [m |-> Append(m1, NewSession(c)), d |-> d1]

CanInitialize(m, c) ==
    MapHas(m, c) => MapGet(m, c).destroys < MaxDestroys

\* start-up loop: client_1 .. client_WHATSAPP_WORKERS_COUNT
RECURSIVE InitialPool(_)
InitialPool(n) ==
    IF n <= 0 THEN <<>>
    ELSE initializeWhatsAppClient(InitialPool(n - 1), EmptyBag, n).m

Init ==
    /\ WHATSAPP_WORKERS_COUNT \in WorkerCounts
    /\ whatsappClients = InitialPool(WHATSAPP_WORKERS_COUNT)
    /\ detached = EmptyBag
    /\ myCache = {}
    /\ timers = [c \in ClientIds |-> 0]
    /\ addPolls = {}
    /\ activeOperations = [k \in OpIds |-> NoOp]
    /\ nextOp = 1
    /\ resp = 0

\* ---- session objects: in the Map (reg) or detached ------------------------
Objects ==
    {[reg |-> TRUE, idx |-> i, rec |-> whatsappClients[i]] : i \in 1..Len(whatsappClients)}
    \cup {[reg |-> FALSE, idx |-> 0, rec |-> r] : r \in BagToSet(detached)}

\* the Map and the detached objects with object o changed to s
Replace(m, d, o, s) ==
    IF o.reg THEN [m |-> [m EXCEPT ![o.idx] = s], d |-> d]
    ELSE [m |-> m, d |-> (d (-) SetToBag({o.rec})) (+) SetToBag({s})]

\* a detached object is forgotten once no destroy() is in flight on it, its
\* connection can emit no further event and no running task holds it
Garbage(s) ==
    /\ s.destroys = 0 /\ s.removes = 0
    /\ s.conn \notin LiveConn
    /\ s.held = {}

Collect(d) ==
    LET keep == {s \in BagToSet(d) : ~Garbage(s)}
    IN  [s \in keep |-> d[s]]

\* every handler leaves the registry in this form
Settle(m, d, cache, tm) ==
    /\ \A c \in ClientIds : tm[c] <= MaxTimers
    /\ BagCardinality(Collect(d)) <= MaxDetached
    /\ whatsappClients' = m
    /\ detached' = Collect(d)
    /\ myCache' = cache
    /\ timers' = tm

\* a handler of session object o: the object becomes s, then the status
\* callback runs with (clientId, status, detail)
Report(o, s, status, hasQr) ==
    LET r == Replace(whatsappClients, detached, o, s)
        u == updateClientStatus(r.m, myCache, timers, s.clientId, status, hasQr)
    IN  [m |-> u.m, d |-> r.d, cache |-> u.cache, tm |-> u.tm]

\* ---- connection events (whatsappClient.js) --------------------------------
\* client.on('qr')
EvQr(o) ==
    /\ o.rec.conn \in {"init", "qr"}
    /\ LET u == Report(o, [o.rec EXCEPT !.status = "qr_ready", !.conn = "qr"],
                       "qr_ready", TRUE)
       IN  Settle(u.m, u.d, u.cache, u.tm)
    /\ resp' = 0
    /\ UNCHANGED <<WHATSAPP_WORKERS_COUNT, addPolls, opVars>>

\* client.on('authenticated')
EvAuthenticated(o) ==
    /\ o.rec.conn \in {"init", "qr"}
    /\ LET u == Report(o, [o.rec EXCEPT !.status = "authenticating", !.conn = "auth"],
                       "authenticating", FALSE)
       IN  Settle(u.m, u.d, u.cache, u.tm)
    /\ resp' = 0
    /\ UNCHANGED <<WHATSAPP_WORKERS_COUNT, addPolls, opVars>>

\* client.on('ready')
EvReady(o) ==
    /\ o.rec.conn = "auth"
    /\ LET u == Report(o, [o.rec EXCEPT !.status = "ready", !.conn = "ready"],
                       "ready", FALSE)
       IN  Settle(u.m, u.d, u.cache, u.tm)
    /\ resp' = 0
    /\ UNCHANGED <<WHATSAPP_WORKERS_COUNT, addPolls, opVars>>

\* client.on('auth_failure'): status error, callback with the message as
\* third argument, then destroy()
EvAuthFailure(o) ==
    /\ o.rec.conn \in {"init", "qr"}
    /\ o.rec.destroys < MaxDestroys
    /\ LET u == Report(o, destroyCall([o.rec EXCEPT !.status = "error"], FALSE),
                       "error", TRUE)
       IN  Settle(u.m, u.d, u.cache, u.tm)
    /\ resp' = 0
    /\ UNCHANGED <<WHATSAPP_WORKERS_COUNT, addPolls, opVars>>

\* client.on('disconnected'): status disconnected, callback with the reason
\* as third argument, then destroy()
EvDisconnected(o) ==
    /\ o.rec.conn \in {"auth", "ready"}
    /\ o.rec.destroys < MaxDestroys
    /\ LET u == Report(o, destroyCall([o.rec EXCEPT !.status = "disconnected"], FALSE),
                       "disconnected", TRUE)
       IN  Settle(u.m, u.d, u.cache, u.tm)
    /\ resp' = 0
    /\ UNCHANGED <<WHATSAPP_WORKERS_COUNT, addPolls, opVars>>

\* client.initialize().catch(...): status error, callback with the message
\* as third argument, no destroy()
EvInitError(o) ==
    /\ o.rec.conn = "init"
    /\ LET u == Report(o, [o.rec EXCEPT !.status = "error", !.conn = "failed"],
                       "error", TRUE)
       IN  Settle(u.m, u.d, u.cache, u.tm)
    /\ resp' = 0
    /\ UNCHANGED <<WHATSAPP_WORKERS_COUNT, addPolls, opVars>>

\* ---- destroy() after its await (whatsappClient.js) ------------------------
\* client.destroy() resolved (ok): status destroyed and callback; rejected:
\* only logged
destroyDone(o, s, ok) ==
    IF ok
    THEN Report(o, [s EXCEPT !.status = "destroyed", !.conn = "closed"],
                "destroyed", FALSE)
    ELSE LET r == Replace(whatsappClients, detached, o, s)
         IN  [m |-> r.m, d |-> r.d, cache |-> myCache, tm |-> timers]

DestroyDone(o, ok) ==
    /\ o.rec.destroys > 0
    /\ LET u == destroyDone(o, [o.rec EXCEPT !.destroys = @ - 1], ok)
       IN  Settle(u.m, u.d, u.cache, u.tm)
    /\ resp' = 0
    /\ UNCHANGED <<WHATSAPP_WORKERS_COUNT, addPolls, opVars>>

\* ---- setTimeout(() => initializeWhatsAppClient(clientId), 5000) -----------
TimerFire(c) ==
    /\ timers[c] > 0
    /\ CanInitialize(whatsappClients, c)
    /\ LET r == initializeWhatsAppClient(whatsappClients, detached, c)
       IN  Settle(r.m, r.d, myCache, [timers EXCEPT ![c] = @ - 1])
    /\ resp' = 0
    /\ UNCHANGED <<WHATSAPP_WORKERS_COUNT, addPolls, opVars>>

\* ---- node-cache TTL -------------------------------------------------------
CacheExpire(c) ==
    /\ c \in myCache
    /\ myCache' = myCache \ {c}
    /\ resp' = 0
    /\ UNCHANGED <<WHATSAPP_WORKERS_COUNT, whatsappClients, detached, timers,
                   addPolls, opVars>>

\* ---- POST /whatsapp/add ---------------------------------------------------
NewClientId(m) == Len(m) + 1

\* up to the first tick of the checkQr interval
AddClient ==
    LET c == NewClientId(whatsappClients) IN
    /\ c \in ClientIds
    /\ CanInitialize(whatsappClients, c)
    /\ LET r == initializeWhatsAppClient(whatsappClients, detached, c)
       IN  Settle(r.m, r.d, myCache, timers)
    /\ addPolls' = addPolls \cup {c}
    /\ resp' = 0
    /\ UNCHANGED <<WHATSAPP_WORKERS_COUNT, opVars>>

\* a tick of checkQr finds the cached value and the request is answered
AddPoll(c) ==
    /\ c \in addPolls
    /\ c \in myCache
    /\ addPolls' = addPolls \ {c}
    /\ resp' = 200
    /\ UNCHANGED <<WHATSAPP_WORKERS_COUNT, whatsappClients, detached, myCache,
                   timers, opVars>>

\* ---- POST /whatsapp/remove ------------------------------------------------
RemoveClient_NotFoundReinit(c) ==
    IF MapHas(whatsappClients, c)
    THEN /\ MapGet(whatsappClients, c).removes < MaxDestroys
         /\ Settle([whatsappClients EXCEPT ![MapIndex(whatsappClients, c)] =
                                               destroyCall(@, TRUE)],
                   detached, myCache, timers)
         /\ resp' = 0
         /\ UNCHANGED <<WHATSAPP_WORKERS_COUNT, addPolls, opVars>>
    ELSE /\ resp' = 404
         /\ timers' = [x \in ClientIds |->
                          IF x = c /\ timers[x] < MaxTimers THEN timers[x] + 1
                          ELSE timers[x]]
         /\ UNCHANGED <<WHATSAPP_WORKERS_COUNT, whatsappClients, detached, myCache,
                        addPolls, opVars>>

\* up to `await client.destroy()`, or the 404 answer
RemoveClient(c) ==
    IF MapHas(whatsappClients, c)
    THEN /\ MapGet(whatsappClients, c).removes < MaxDestroys
         /\ Settle([whatsappClients EXCEPT ![MapIndex(whatsappClients, c)] =
                                               destroyCall(@, TRUE)],
                   detached, myCache, timers)
         /\ resp' = 0
         /\ UNCHANGED <<WHATSAPP_WORKERS_COUNT, addPolls, opVars>>
    ELSE /\ resp' = 404
         /\ UNCHANGED <<WHATSAPP_WORKERS_COUNT, regVars, opVars>>

\* whatsappClients.delete(clientId): the object stored under c, if any,
\* leaves the Map
mapDelete(m, d, c) ==
    IF MapHas(m, c)
    THEN [m |-> MapDelete(m, c), d |-> d (+) SetToBag({MapGet(m, c)})]
    ELSE [m |-> m, d |-> d]

\* the awaited destroy() of object o returned: delete the Map entry of its
\* clientId, answer 200
RemoveDone(o, ok) ==
    /\ o.rec.removes > 0
    /\ LET u == destroyDone(o, [o.rec EXCEPT !.removes = @ - 1], ok)
           r == mapDelete(u.m, u.d, o.rec.clientId)
       IN  Settle(r.m, r.d, u.cache, u.tm)
    /\ resp' = 200
    /\ UNCHANGED <<WHATSAPP_WORKERS_COUNT, addPolls, opVars>>

\* ---- session capabilities (whatsappClient.js) -----------------------------
\* sendMessage / sendReport / addTargetToGroup on session object s; ok: the
\* outcome of the call on the underlying connection, where there is one.
\* Result: "sent", or the reason of the error thrown.
sendMessage(s, ok) ==
    IF s.status # "ready" THEN "not_ready" ELSE IF ok THEN "sent" ELSE "failed"

sendReport(s, ok) ==
    IF s.status # "ready" THEN "not_ready" ELSE "sent"

addTargetToGroup_NoReadyCheck(s, ok) ==
    IF ok THEN "sent" ELSE "failed"

addTargetToGroup(s, ok) ==
    IF s.status # "ready" THEN "not_ready" ELSE IF ok THEN "sent" ELSE "failed"

\* ---- POST /ban and executeBanStrategy (main.js) ---------------------------
RepeatKinds == {"REPORT_FLOOD", "MESSAGE_DELUGE", "GROUP_POISON"}

TotalCount(banType) ==
    CASE banType = "REPORT_FLOOD"   -> MASS_REPORT_COUNT
      [] banType = "MESSAGE_DELUGE" -> MESSAGE_FLOOD_COUNT
      [] banType = "GROUP_POISON"   -> GROUP_INVITE_COUNT
      [] OTHER -> 0

\* the loop test `i < COUNT / clients.length` (a floating-point quotient)
LoopTest(i, banType, nClients) == i * nClients < TotalCount(banType)

Dispatch(banType, s, ok) ==
    CASE banType = "REPORT_FLOOD"   -> sendReport(s, ok)
      [] banType = "MESSAGE_DELUGE" -> sendMessage(s, ok)
      [] banType = "GROUP_POISON"   -> addTargetToGroup(s, ok)

\* Array.from(whatsappClients.values()).filter(c => c.status === 'ready'),
\* as the positions in the Map
RECURSIVE ReadyFrom(_, _)
ReadyFrom(m, i) ==
    IF i > Len(m) THEN <<>>
    ELSE IF m[i].status = "ready" THEN <<i>> \o ReadyFrom(m, i + 1)
         ELSE ReadyFrom(m, i + 1)

availableClients(m) == ReadyFrom(m, 1)

WorkerCap == IF WHATSAPP_WORKERS_COUNT # 0 THEN WHATSAPP_WORKERS_COUNT ELSE 1

RECURSIVE SelectWorkers_BreakTooLate(_, _, _)
SelectWorkers_BreakTooLate(clients, usedClientCount, cap) ==
    IF clients = <<>> \/ usedClientCount > cap THEN <<>>
    ELSE <<Head(clients)>> \o SelectWorkers_BreakTooLate(Tail(clients), usedClientCount + 1, cap)

\* the for loop over clients with its break on usedClientCount
RECURSIVE SelectWorkers(_, _, _)
SelectWorkers(clients, usedClientCount, cap) ==
    IF clients = <<>> \/ usedClientCount >= cap THEN <<>>
    ELSE <<Head(clients)>> \o SelectWorkers(Tail(clients), usedClientCount + 1, cap)

Joined_NotAwaited(tasks) == TRUE

Joined_FirstSettled(tasks) ==
    tasks = <<>> \/ \E j \in 1..Len(tasks) : tasks[j].state # "running"

Joined_AllFulfilled(tasks) == \A j \in 1..Len(tasks) : tasks[j].state = "success"

\* Promise.allSettled(clientPromises) has resolved
Joined(tasks) == \A j \in 1..Len(tasks) : tasks[j].state # "running"

Targets  == {"", "T1"}
BanTypes == {"", "GROUP_POISON", "2FA_PROBE", "OTHER"}

\* the accepted request: the operation record is stored, the answer is sent,
\* then executeBanStrategy runs up to its await: status in_progress, one
\* task per selected worker, each suspended in its first delay
BanAccept(targetNumber, banType) ==
    LET clients == availableClients(whatsappClients)
        sel     == SelectWorkers(clients, 0, WorkerCap)
        tasks   == [j \in 1..Len(sel) |->
                       [clientId |-> whatsappClients[sel[j]].clientId,
                        i |-> 0, state |-> "running"]]
    IN  /\ nextOp <= MaxOps
        /\ activeOperations' = [activeOperations EXCEPT ![nextOp] =
               [status |-> IF Joined(tasks) THEN "completed" ELSE "in_progress",
                targetNumber |-> targetNumber, banType |-> banType,
                nClients |-> Len(clients), tasks |-> tasks,
                clientsUsed |-> <<>>]]
        /\ nextOp' = nextOp + 1
        /\ whatsappClients' = [x \in 1..Len(whatsappClients) |->
               IF \E j \in 1..Len(sel) : sel[j] = x
               THEN [whatsappClients[x] EXCEPT !.held = @ \cup
                       {<<nextOp, CHOOSE j \in 1..Len(sel) : sel[j] = x>>}]
               ELSE whatsappClients[x]]
        /\ resp' = 200
        /\ UNCHANGED <<WHATSAPP_WORKERS_COUNT, detached, myCache, timers, addPolls>>

BanReject(code) ==
    /\ resp' = code
    /\ UNCHANGED <<WHATSAPP_WORKERS_COUNT, regVars, opVars>>

Ban_RecordBeforePoolCheck(targetNumber, banType) ==
    IF targetNumber = "" \/ banType = "" THEN BanReject(400)
    ELSE IF availableClients(whatsappClients) = <<>>
    THEN /\ nextOp <= MaxOps
         /\ activeOperations' = [activeOperations EXCEPT ![nextOp] =
                [status |-> "pending", targetNumber |-> targetNumber,
                 banType |-> banType, nClients |-> 0, tasks |-> <<>>,
                 clientsUsed |-> <<>>]]
         /\ nextOp' = nextOp + 1
         /\ resp' = 503
         /\ UNCHANGED <<WHATSAPP_WORKERS_COUNT, regVars>>
    ELSE BanAccept(targetNumber, banType)

Ban(targetNumber, banType) ==
    IF targetNumber = "" \/ banType = "" THEN BanReject(400)
    ELSE IF availableClients(whatsappClients) = <<>> THEN BanReject(503)
    ELSE BanAccept(targetNumber, banType)

\* ---- GET /status ----------------------------------------------------------
statusResponse ==
    [total    |-> Len(whatsappClients),
     active   |-> Len(SelectSeq(whatsappClients, LAMBDA s : s.status = "ready")),
     statuses |-> [x \in 1..Len(whatsappClients) |->
                      [id |-> whatsappClients[x].clientId,
                       status |-> whatsappClients[x].status]],
     activeOperations |-> {k \in OpIds : activeOperations[k] # NoOp}]

\* the session object captured by task j of operation k
Holder(k, j) == CHOOSE o \in Objects : <<k, j>> \in o.rec.held

\* a task record: clientId of the captured session, the loop counter i of the
\* running closure (0 again once the closure has returned), and its state;
\* what task j of operation k does when its pending delay elapses:
\* "next" (one more strategy call succeeded), or how the task ends
TaskOutcome_UnknownThrows(op, t, s, ok) ==
    IF op.banType \in RepeatKinds
    THEN IF LoopTest(t.i, op.banType, op.nClients)
         THEN LET r == Dispatch(op.banType, s, ok)
              IN  IF r = "sent" THEN "next" ELSE r
         ELSE "success"
    ELSE IF op.banType = "2FA_PROBE" THEN "success" ELSE "failed"

TaskOutcome(op, t, s, ok) ==
    IF op.banType \in RepeatKinds
    THEN IF LoopTest(t.i, op.banType, op.nClients)
         THEN LET r == Dispatch(op.banType, s, ok)
              IN  IF r = "sent" THEN "next" ELSE r
         ELSE "success"
    ELSE "success"

TaskStep(k, j, ok) ==
    /\ activeOperations[k] # NoOp
    /\ j \in 1..Len(activeOperations[k].tasks)
    /\ activeOperations[k].tasks[j].state = "running"
    /\ LET op  == activeOperations[k]
           t   == op.tasks[j]
           o   == Holder(k, j)
           out == TaskOutcome(op, t, o.rec, ok)
       IN  IF out = "next"
           THEN /\ activeOperations' = [activeOperations EXCEPT ![k].tasks[j].i = @ + 1]
                /\ UNCHANGED regVars
           ELSE LET tasks == [op.tasks EXCEPT ![j] = [@ EXCEPT !.state = out, !.i = 0]]
                    r == Replace(whatsappClients, detached, o,
                                 [o.rec EXCEPT !.held = @ \ {<<k, j>>}])
                IN  /\ activeOperations' = [activeOperations EXCEPT ![k] =
                           [op EXCEPT !.tasks = tasks,
                                      !.clientsUsed = Append(@,
                                          [id |-> t.clientId,
                                           status |-> IF out = "success" THEN "success"
                                                      ELSE "failed",
                                           error |-> IF out = "success" THEN "" ELSE out]),
                                      !.status = IF Joined(tasks) THEN "completed"
                                                 ELSE "in_progress"]]
                    /\ whatsappClients' = r.m
                    /\ detached' = Collect(r.d)
                    /\ UNCHANGED <<myCache, timers, addPolls>>
    /\ resp' = 0
    /\ UNCHANGED <<WHATSAPP_WORKERS_COUNT, nextOp>>

Purge_ArmedAtSubmit(k) ==
    /\ activeOperations[k] # NoOp
    /\ activeOperations' = [activeOperations EXCEPT ![k] = NoOp]
    /\ resp' = 0
    /\ UNCHANGED <<WHATSAPP_WORKERS_COUNT, regVars, nextOp>>

\* setTimeout(() => activeOperations.delete(operationId), 3600000)
Purge(k) ==
    /\ activeOperations[k].status = "completed"
    /\ activeOperations' = [activeOperations EXCEPT ![k] = NoOp]
    /\ resp' = 0
    /\ UNCHANGED <<WHATSAPP_WORKERS_COUNT, regVars, nextOp>>

NextOps ==
    \/ \E t \in Targets, b \in BanTypes : Ban(t, b)
    \/ \E k \in OpIds, j \in 1..MaxClients, ok \in BOOLEAN : TaskStep(k, j, ok)
    \/ \E k \in OpIds : Purge(k)

\* ---- specifications -------------------------------------------------------
\* the Map activeOperations is empty
Empty == \A k \in OpIds : activeOperations[k] = NoOp

\* The coordinator with operations submitted one at a time (POST /ban arrives
\* when the Map of operations is empty), sessions that authenticate, become
\* ready and disconnect, destroy() calls that settle, and clients added on
\* request.  No timer fires: a session is not replaced while it works.
NextOp ==
    \/ \E t \in Targets, b \in BanTypes : Empty /\ Ban(t, b)
    \/ \E k \in OpIds, j \in 1..MaxClients, ok \in BOOLEAN : TaskStep(k, j, ok)
    \/ \E k \in OpIds : Purge(k)
    \/ \E o \in Objects : EvAuthenticated(o)
    \/ \E o \in Objects : EvReady(o)
    \/ \E o \in Objects : EvDisconnected(o)
    \/ \E o \in Objects, ok \in BOOLEAN : DestroyDone(o, ok)
    \/ AddClient

OpSpec == Init /\ [][NextOp]_vars

\* the same, with destroy() calls left pending
NextOpLive ==
    \/ \E t \in Targets, b \in BanTypes : Empty /\ Ban(t, b)
    \/ \E k \in OpIds, j \in 1..MaxClients, ok \in BOOLEAN : TaskStep(k, j, ok)
    \/ \E k \in OpIds : Purge(k)
    \/ \E o \in Objects : EvAuthenticated(o)
    \/ \E o \in Objects : EvReady(o)
    \/ \E o \in Objects : EvDisconnected(o)
    \/ AddClient

\* the scheduling of the event loop: the delay a task waits in elapses and
\* the strategy call it awaits returns or throws
FairOpSpec ==
    /\ Init /\ [][NextOpLive]_vars
    /\ \A k \in OpIds, j \in 1..MaxClients :
          WF_vars(\E ok \in BOOLEAN : TaskStep(k, j, ok))

\* ... and the retention timer of a completed operation fires
FairPurgeSpec ==
    /\ FairOpSpec
    /\ \A k \in OpIds : WF_vars(Purge(k))

\* the session objects constructed for identity c
SessionsOf(c) == {o \in Objects : o.rec.clientId = c}

\* The registry left to itself, no request arriving: the connection events,
\* destroy() completions and timers of client_1; the connections of the other
\* sessions stay silent (updateClientStatus touches the entry of its own
\* clientId only).
NextHeal ==
    \/ \E o \in SessionsOf(1) : EvQr(o)
    \/ \E o \in SessionsOf(1) : EvAuthenticated(o)
    \/ \E o \in SessionsOf(1) : EvReady(o)
    \/ \E o \in SessionsOf(1) : EvAuthFailure(o)
    \/ \E o \in SessionsOf(1) : EvDisconnected(o)
    \/ \E o \in SessionsOf(1) : EvInitError(o)
    \/ \E o \in SessionsOf(1), ok \in BOOLEAN : DestroyDone(o, ok)
    \/ TimerFire(1)
    \/ CacheExpire(1)

HealSpec == Init /\ [][NextHeal]_vars

\* Scheduling of the event loop: a pending client.destroy() promise settles
\* and a pending timer fires.  TimerFire is always enabled in the program
\* while a timer is pending; here the bounds can disable it for a while,
\* hence strong fairness.
DestroySettles(c) ==
    \E o \in SessionsOf(c), ok \in BOOLEAN : DestroyDone(o, ok)

\* a connection that is being set up reports something: a QR code, a
\* restored login, or a failure
ConnectionReports(c) ==
    \E o \in SessionsOf(c) :
        EvQr(o) \/ EvAuthenticated(o) \/ EvAuthFailure(o) \/ EvInitError(o)

FairHealSpec ==
    /\ HealSpec
    /\ WF_vars(DestroySettles(1))
    /\ SF_vars(TimerFire(1))
    /\ WF_vars(ConnectionReports(1))

\* add and remove requests against sessions that authenticate and become
\* ready
NextRemove ==
    \/ \E o \in Objects : EvAuthenticated(o)
    \/ \E o \in Objects : EvReady(o)
    \/ \E o \in Objects, ok \in BOOLEAN : DestroyDone(o, ok)
    \/ \E c \in ClientIds : TimerFire(c)
    \/ AddClient
    \/ \E c \in ClientIds \cup {MaxClients + 1} : RemoveClient(c)
    \/ \E o \in Objects, ok \in BOOLEAN : RemoveDone(o, ok)

RemoveSpec == Init /\ [][NextRemove]_vars

\* ---- API key middleware (main.js) -----------------------------------------
API_SECRET_KEY == "YOUR_STRONG_SECRET_KEY_HERE"

\* values of the x-api-key header; "" stands for a missing header
ApiKeys == {"", "wrong", API_SECRET_KEY}

apiKeyOk_PresenceOnly(apiKey) == apiKey # ""

\* apiKey && apiKey === config.API_SECRET_KEY
apiKeyOk(apiKey) == apiKey # "" /\ apiKey = API_SECRET_KEY

\* the middleware in front of a handler: next(), or the 401 answer
Middleware(apiKey, handler) ==
    IF apiKeyOk(apiKey) THEN handler
    ELSE /\ resp' = 401
         /\ UNCHANGED <<WHATSAPP_WORKERS_COUNT, regVars, opVars>>

\* GET /status: a pure read
Status ==
    /\ resp' = 200
    /\ UNCHANGED <<WHATSAPP_WORKERS_COUNT, regVars, opVars>>

\* a request to one of the four endpoints carrying the header value apiKey
Request(apiKey) ==
    \/ Middleware(apiKey, Status)
    \/ Middleware(apiKey, AddClient)
    \/ \E c \in ClientIds \cup {MaxClients + 1} : Middleware(apiKey, RemoveClient(c))
    \/ \E t \in Targets, b \in BanTypes : Middleware(apiKey, Empty /\ Ban(t, b))

\* requests with any header value against sessions that pair and become
\* ready; an admitted submission arrives when the Map of operations is empty;
\* the awaited destroy() of a removal and the tasks of an accepted operation
\* are left pending
NextAuth ==
    \/ \E o \in Objects : EvQr(o)
    \/ \E o \in Objects : EvAuthenticated(o)
    \/ \E o \in Objects : EvReady(o)
    \/ \E apiKey \in ApiKeys : Request(apiKey)

AuthSpec == Init /\ [][NextAuth]_vars

\* ---- sendTelegramMessageToAdmin (main.js) ---------------------------------
sendTelegramMessageToAdmin_Rethrows(delivers) ==
    IF delivers THEN "resolved" ELSE "rejected"

\* delivers: whether telegram.sendMessage succeeds; the catch logs the error,
\* so the promise the function returns resolves either way
sendTelegramMessageToAdmin(delivers) ==
    IF delivers THEN "resolved" ELSE "resolved"

\* a handler that notifies the admin: were the notification to throw, the
\* handler would not run to its end
Notify(delivers, handler) ==
    sendTelegramMessageToAdmin(delivers) = "resolved" /\ handler

\* the steps that send a notification: ready and disconnected sessions, the
\* start of an operation, the end of a task and of the operation
Notifying(delivers) ==
    \/ \E o \in Objects : Notify(delivers, EvReady(o))
    \/ \E o \in Objects : Notify(delivers, EvDisconnected(o))
    \/ \E t \in Targets, b \in BanTypes : Notify(delivers, Empty /\ Ban(t, b))
    \/ \E k \in OpIds, j \in 1..MaxClients, ok \in BOOLEAN :
          Notify(delivers, TaskStep(k, j, ok))

\* the coordinator with operations submitted one at a time and notifications
\* that are delivered or not
NextNotify ==
    \/ \E delivers \in BOOLEAN : Notifying(delivers)
    \/ \E k \in OpIds : Purge(k)
    \/ \E o \in Objects : EvAuthenticated(o)
    \/ AddClient

NotifySpec == Init /\ [][NextNotify]_vars

\* remove requests against sessions that pair, connect and disconnect, and
\* clients added on request; the awaited destroy() of a session that was found
\* is left pending
NextLookup ==
    \/ \E o \in Objects : EvQr(o)
    \/ \E o \in Objects : EvAuthenticated(o)
    \/ \E o \in Objects : EvReady(o)
    \/ \E o \in Objects : EvDisconnected(o)
    \/ AddClient
    \/ \E c \in ClientIds \cup {MaxClients + 1} : RemoveClient(c)

LookupSpec == Init /\ [][NextLookup]_vars

\* add requests and their polls against sessions that show a QR code,
\* authenticate, become ready or fail to initialise; cached codes expire
NextAdd ==
    \/ \E o \in Objects : EvQr(o)
    \/ \E o \in Objects : EvAuthenticated(o)
    \/ \E o \in Objects : EvReady(o)
    \/ \E o \in Objects : EvInitError(o)
    \/ \E c \in ClientIds : CacheExpire(c)
    \/ AddClient
    \/ \E c \in ClientIds : AddPoll(c)

\* the scheduling of the event loop: the checkQr interval ticks every second
\* and a cached code lives 300 s, so a tick sees every code that gets cached
FairAddSpec ==
    /\ Init /\ [][NextAdd]_vars
    /\ \A c \in ClientIds : SF_vars(AddPoll(c))

\* every handler, timer and event
Next ==
    \/ \E o \in Objects : EvQr(o)
    \/ \E o \in Objects : EvAuthenticated(o)
    \/ \E o \in Objects : EvReady(o)
    \/ \E o \in Objects : EvAuthFailure(o)
    \/ \E o \in Objects : EvDisconnected(o)
    \/ \E o \in Objects : EvInitError(o)
    \/ \E o \in Objects, ok \in BOOLEAN : DestroyDone(o, ok)
    \/ \E c \in ClientIds : TimerFire(c)
    \/ \E c \in ClientIds : CacheExpire(c)
    \/ NextOps
    \/ AddClient
    \/ \E c \in ClientIds : AddPoll(c)
    \/ \E c \in ClientIds \cup {MaxClients + 1} : RemoveClient(c)
    \/ \E o \in Objects, ok \in BOOLEAN : RemoveDone(o, ok)

Spec == Init /\ [][Next]_vars

\* ---- C1 -------------------------------------------------------------------
\* C1: an identity that is absent from the Map gets back into it only by a
\* step of an add request (after remove(id) the identity stays absent until
\* the next requested ensure(id)).
C1_AbsentUntilEnsure ==
    [][\A c \in ClientIds :
          (~Registered(c) /\ Registered(c)') => AddClient]_vars

\* ---- C2 -------------------------------------------------------------------
Failed(c)  == Registered(c) /\ StatusOf(c) \in {"error", "disconnected"}

\* C2 as stated: a registered session in error or disconnected is followed,
\* with no request, by a session of the same identity in qr_ready or later.
C2_ReachesPendingAuth ==
    \A c \in ClientIds :
        Failed(c) ~> (Registered(c) /\ StatusOf(c) \in {"qr_ready", "authenticating", "ready"})

\* C2 amended: a registered session in error or disconnected is followed,
\* with no request, by a freshly constructed session of the same identity
\* (state idle); whether it reaches qr_ready is up to its connection.
C2_ReachesFreshSession ==
    \A c \in ClientIds :
        Failed(c) ~> (Registered(c) /\ StatusOf(c) = "idle")

\* a failed session has been replaced: the old object is still being
\* destroyed, the new one is in the Map in state idle
C2_Witness ==
    \E c \in ClientIds :
        /\ Registered(c) /\ StatusOf(c) = "idle"
        /\ \E s \in BagToSet(detached) :
              s.clientId = c /\ s.status \in {"error", "disconnected"}

\* ---- C3 -------------------------------------------------------------------
Op(k) == activeOperations[k]

\* task j of operation k will call a session capability when it next runs
Dispatching(k, j) ==
    /\ Op(k).status = "in_progress"
    /\ j \in 1..Len(Op(k).tasks)
    /\ Op(k).tasks[j].state = "running"
    /\ Op(k).banType \in RepeatKinds
    /\ LoopTest(Op(k).tasks[j].i, Op(k).banType, Op(k).nClients)

Last(q) == q[Len(q)]

OutcomeIds(op) == {op.clientsUsed[x].id : x \in 1..Len(op.clientsUsed)}
SelectedIds(op) == {op.tasks[j].clientId : j \in 1..Len(op.tasks)}

\* C4: a completed operation has exactly one outcome per worker selected at
\* dispatch time.
C4_OneOutcomePerWorker ==
    \A k \in OpIds :
        Op(k).status = "completed" =>
            /\ Len(Op(k).clientsUsed) = Len(Op(k).tasks)
            /\ Cardinality(OutcomeIds(Op(k))) = Len(Op(k).clientsUsed)
            /\ OutcomeIds(Op(k)) = SelectedIds(Op(k))

\* a completed operation with one success and one failure
C4_Witness ==
    \E k \in OpIds :
        /\ Op(k).status = "completed"
        /\ \E x, y \in 1..Len(Op(k).clientsUsed) :
              /\ Op(k).clientsUsed[x].status = "success"
              /\ Op(k).clientsUsed[y].status = "failed"

\* ---- C5 -------------------------------------------------------------------
KnownKinds == RepeatKinds \cup {"2FA_PROBE"}

\* C5 as stated: an operation of an unknown kind completes with an empty
\* outcome list.
C5_UnknownKindNoOutcome ==
    \A k \in OpIds :
        (Op(k).status = "completed" /\ Op(k).banType \notin KnownKinds)
            => Op(k).clientsUsed = <<>>

\* C5 amended: an operation of an unknown kind completes with one success
\* outcome per selected worker.
C5_UnknownKindAllSuccess ==
    \A k \in OpIds :
        (Op(k).status = "completed" /\ Op(k).banType \notin KnownKinds)
            => /\ Len(Op(k).clientsUsed) = Len(Op(k).tasks)
               /\ \A x \in 1..Len(Op(k).clientsUsed) :
                      Op(k).clientsUsed[x].status = "success"

C5_Witness ==
    \E k \in OpIds :
        /\ Op(k).status = "completed"
        /\ Op(k).banType \notin KnownKinds
        /\ Len(Op(k).clientsUsed) > 0

\* ---- C6 -------------------------------------------------------------------
\* C6: a worker of a repeat-count operation that ends in success has called
\* the strategy floor(totalCount / numSelectedWorkers) times.
C6_FloorShare ==
    [][\A k \in OpIds, j \in 1..MaxClients :
          (/\ Op(k).status = "in_progress"
           /\ j \in 1..Len(Op(k).tasks)
           /\ Op(k).banType \in RepeatKinds
           /\ Op(k).tasks[j].state = "running"
           /\ Op(k)'.tasks[j].state = "success")
          => Op(k).tasks[j].i = TotalCount(Op(k).banType) \div Len(Op(k).tasks)]_vars

\* ---- C7 -------------------------------------------------------------------
Min(a, b) == IF a <= b THEN a ELSE b

ReadyIds(m) ==
    LET r == SelectSeq(m, LAMBDA s : s.status = "ready")
    IN  [x \in 1..Len(r) |-> r[x].clientId]

\* C7: the workers started for an accepted operation are the first
\* min(#ready, workerCap) ready sessions in the Map's insertion order.
C7_FirstReadyUpToCap ==
    [][\A k \in OpIds :
          (Op(k) = NoOp /\ Op(k)' # NoOp)
          => /\ [j \in 1..Len(Op(k)'.tasks) |-> Op(k)'.tasks[j].clientId]
                  = SubSeq(ReadyIds(whatsappClients), 1,
                           Min(Len(ReadyIds(whatsappClients)), WorkerCap))
             /\ \A j \in 1..Len(Op(k)'.tasks) :
                    \E x \in 1..Len(whatsappClients) :
                        /\ whatsappClients[x].clientId = Op(k)'.tasks[j].clientId
                        /\ whatsappClients[x].status = "ready"
                        /\ <<k, j>> \in whatsappClients'[x].held]_vars

\* more sessions were ready than the cap allows: one was left out
C7_Witness ==
    \E k \in OpIds :
        /\ Op(k).status = "in_progress"
        /\ Len(Op(k).tasks) < Op(k).nClients
        /\ Len(Op(k).tasks) = WorkerCap

\* ---- C8 -------------------------------------------------------------------
\* C8: a step that answers 400 or 503 changes neither the registry nor the
\* operations.
C8_RejectionNoEffect ==
    [][resp' \in {400, 503} => UNCHANGED <<regVars, opVars>>]_vars

\* rejected for an empty ready pool although sessions exist
C8_Witness == resp = 503 /\ whatsappClients # <<>>

\* ---- C9 -------------------------------------------------------------------
\* C9: in the state left by the step that accepted a submission, GET /status
\* lists the new operation, in pending or in_progress unless no worker was
\* selected.
C9_StatusAfterSubmit ==
    [][\A k \in OpIds :
          (Op(k) = NoOp /\ Op(k)' # NoOp)
          => /\ k \in statusResponse'.activeOperations
             /\ \/ Op(k)'.status \in {"pending", "in_progress"}
                \/ Op(k)'.tasks = <<>>]_vars

\* the state right after an accepted submission
C9_Witness ==
    /\ resp = 200
    /\ \E k \in OpIds :
          /\ Op(k).status = "in_progress"
          /\ Op(k).clientsUsed = <<>>
          /\ \A j \in 1..Len(Op(k).tasks) : Op(k).tasks[j].i = 0

\* ---- C10 ------------------------------------------------------------------
\* C10: every accepted operation eventually reaches completed, whichever of
\* its workers fail.
C10_EventuallyCompleted ==
    \A k \in OpIds : (Op(k).status = "in_progress") ~> (Op(k).status = "completed")

\* a completed operation in which a worker failed not-ready and another
\* succeeded after it
C10_Witness ==
    \E k \in OpIds :
        /\ Op(k).status = "completed"
        /\ Len(Op(k).clientsUsed) = 2
        /\ Op(k).clientsUsed[1].status = "failed"
        /\ Op(k).clientsUsed[2].status = "success"

\* ---- C11 ------------------------------------------------------------------
\* session objects of identity c, in the Map or detached, whose connection was
\* created and on which destroy() has not been called
LiveCount(c) ==
    (IF Registered(c) /\ MapGet(whatsappClients, c).conn \in LiveConn THEN 1 ELSE 0)
    + BagCardinality([s \in {x \in BagToSet(detached) :
                                 x.clientId = c /\ x.conn \in LiveConn} |-> detached[s]])

\* C11: each identity has at most one session whose connection is live
\* (created and not handed to destroy()).
C11_OneLiveConnection == \A c \in ClientIds : LiveCount(c) <= 1

\* ---- C12 ------------------------------------------------------------------
\* C12: no session object is outside the Map with a live connection, that is,
\* without destroy() having been called on it.
C12_ReleasedBeforeDropped ==
    \A s \in BagToSet(detached) : s.conn \notin LiveConn

\* ---- C13 ------------------------------------------------------------------
\* C13: a step that answers 404 leaves the Map, every session object, the
\* cache and the pending timers (and the operations) unchanged.
C13_NotFoundNoEffect ==
    [][resp' = 404 => UNCHANGED <<regVars, opVars>>]_vars

\* 404 was answered while a token is cached and a timer is pending
C13_Witness ==
    /\ resp = 404
    /\ myCache # {}
    /\ \E c \in ClientIds : timers[c] > 0

\* ---- C14 ------------------------------------------------------------------
\* C14: an add request puts a new identity into the Map: the Map has one more
\* entry after it and every entry it had is still there, untouched.
C14_AddCreatesNewIdentity ==
    [][AddClient =>
          /\ Len(whatsappClients') = Len(whatsappClients) + 1
          /\ \A i \in 1..Len(whatsappClients) : whatsappClients'[i] = whatsappClients[i]]_vars

\* ---- C15 ------------------------------------------------------------------
\* C15: every add request is eventually answered.
C15_AddReturns ==
    \A c \in ClientIds : (c \in addPolls) ~> (c \notin addPolls)

\* ---- C16 ------------------------------------------------------------------
\* destroy() was called on session object s and every call has finished
Destroyed(s) ==
    /\ s.conn \in {"closing", "closed"}
    /\ s.destroys = 0
    /\ s.removes = 0

\* C16: a session object whose destroy() calls have all finished has status
\* destroyed.
C16_DestroyedOnEveryPath ==
    \A o \in Objects : Destroyed(o.rec) => o.rec.status = "destroyed"

\* ---- C17 ------------------------------------------------------------------
\* C17: when a destroy() call on an already destroyed session object finishes,
\* no status is reported to the registry and no timer is scheduled.
C17_DestroyIdempotent ==
    [][(\E o \in Objects, ok \in BOOLEAN : o.rec.conn = "closed" /\ DestroyDone(o, ok))
          => UNCHANGED <<whatsappClients, timers>>]_vars

\* ---- C18 ------------------------------------------------------------------
\* C18: the set of identities in the Map changes only in a step of an add
\* request or of a remove request.
C18_PoolChangesOnRequest ==
    [][MapKeys(whatsappClients') # MapKeys(whatsappClients)
          => \/ AddClient
             \/ \E o \in Objects, ok \in BOOLEAN : RemoveDone(o, ok)]_vars

\* ---- C19 ------------------------------------------------------------------
\* C19: a step taken while an operation is completed leaves its status and
\* its outcome list as they are, or purges the operation.
C19_CompletedImmutable ==
    [][\A k \in OpIds :
          Op(k).status = "completed"
          => \/ Op(k)' = NoOp
             \/ /\ Op(k)'.status = "completed"
                /\ Op(k)'.clientsUsed = Op(k).clientsUsed]_vars

\* an operation completed with two outcomes, and a session that worked for it
\* has been destroyed
C19_Witness ==
    \E k \in OpIds :
        /\ Op(k).status = "completed"
        /\ Len(Op(k).clientsUsed) = 2
        /\ \E c \in OutcomeIds(Op(k)) : Registered(c) /\ StatusOf(c) = "destroyed"

\* ---- C20 ------------------------------------------------------------------
\* C20: an operation leaves the Map only from status completed, every
\* completed operation eventually leaves it, and GET /status lists exactly the
\* operations that are in the Map.
C20_RetentionPurge ==
    /\ [][\A k \in OpIds :
             (Op(k) # NoOp /\ Op(k)' = NoOp) => Op(k).status = "completed"]_vars
    /\ \A k \in OpIds : (Op(k).status = "completed") ~> (Op(k) = NoOp)
    /\ [](statusResponse.activeOperations = {k \in OpIds : Op(k) # NoOp})

\* an operation has been purged
C20_Witness ==
    \E k \in OpIds : k < nextOp /\ Op(k) = NoOp

\* ---- C21 ------------------------------------------------------------------
\* C21: a request whose x-api-key header is missing or differs from the
\* secret is answered 401 and changes neither the registry nor the operations.
C21_UnauthorizedNoEffect ==
    [][(\E apiKey \in ApiKeys \ {API_SECRET_KEY} : Request(apiKey))
          => /\ resp' = 401
             /\ UNCHANGED <<regVars, opVars>>]_vars

\* 401 was answered while a session is ready and a token is cached, so an
\* admitted submission or removal would have had an effect
C21_Witness ==
    /\ resp = 401
    /\ myCache # {}
    /\ \E c \in ClientIds : Registered(c) /\ StatusOf(c) = "ready"

C23_StaleCallbackIgnored ==
    [][(\E o \in Objects, ok \in BOOLEAN : ~o.reg /\ DestroyDone(o, ok))
          => UNCHANGED <<whatsappClients, myCache, timers>>]_vars

\* ---- C24 ------------------------------------------------------------------
\* the session stored under c is ready
Ready(c) == Registered(c) /\ StatusOf(c) = "ready"

\* C24: a step after which the session stored under an identity is no longer
\* the ready session it was is an auth_failure or disconnected event of that
\* session's own connection, or a step of an add or remove request.
C24_ReadyUntilOwnFailure ==
    [][\A c \in ClientIds :
          (Ready(c) /\ ~(Ready(c)' /\ MapGet(whatsappClients', c) = MapGet(whatsappClients, c)))
          => \/ \E o \in SessionsOf(c) : o.reg /\ (EvAuthFailure(o) \/ EvDisconnected(o))
             \/ AddClient
             \/ RemoveClient(c)
             \/ \E o \in Objects, ok \in BOOLEAN : RemoveDone(o, ok)]_vars

\* ---- C25 ------------------------------------------------------------------
\* C25: at most one re-initialisation timer is pending for an identity.
C25_OneTimerPerIdentity == \A c \in ClientIds : timers[c] <= 1

====
